---- MODULE Spec2Model ----
(***************************************************************************)
(* A model of src/src/kernel.cu: the boids flocking simulation with its    *)
(* three neighbour-search strategies (brute force, scattered uniform grid, *)
(* coherent uniform grid), the ping-pong velocity buffers and the position *)
(* integrator.                                                             *)
(*                                                                         *)
(* Numbers.  The program computes in 32-bit floats.  The model computes in *)
(* fixed point: a float f is the integer f * Q.  Products and quotients    *)
(* round to the nearest integer.  Comparisons of a vector length with a    *)
(* distance are made on the squares, which is exact.  The model therefore  *)
(* says nothing about float rounding.                                      *)
(*                                                                         *)
(* Execution.  The host thread runs the step functions.  A kernel launch   *)
(* <<<...>>> appends the kernel, with the pointer arguments it was given,  *)
(* to the default stream and returns at once; the device runs the stream   *)
(* in order, one kernel after the other, the threads of a kernel in any    *)
(* order.  thrust::sort_by_key blocks the host until the stream is drained *)
(* and the sort is done.                                                   *)
(***************************************************************************)
EXTENDS Integers, Sequences, FiniteSets, TLC

\* Fixed-point resolution: units per 1.0f (the smallest scale factor of the
\* program, rule1Scale = 0.01f, is one unit).
Q == 100

(***************************************************************************)
(* Configuration (#define lines 41-56), in fixed point.                    *)
(***************************************************************************)
rule1Distance == 5 * Q
rule2Distance == 3 * Q
rule3Distance == 5 * Q

\* rule1Scale = 0.01f, rule2Scale = 0.1f, rule3Scale = 0.1f: the divisor d
\* of the scale factor 1/d.
rule1ScaleDiv == 100
rule2ScaleDiv == 10
rule3ScaleDiv == 10

maxSpeed == 1 * Q

scene_scale == 100 * Q

(***************************************************************************)
(* Bounds of the model.                                                    *)
(***************************************************************************)
\* The largest particle count N handed to initSimulation.
MaxN == 3
\* The number of step calls of a run.
MaxSteps == 2
\* Calls of Boids::initSimulation in one process.
MaxInits == 2

\* The particle positions a run may start from, all inside the domain
\* [-scene_scale, scene_scale]^3 that kernGenerateRandomPosArray fills.
PosSamples ==
  { <<0, 0, 0>>,             \* the origin
    <<100, 200, 0>>,         \* 2.24 from the origin, in the same cell
    <<-400, 0, 0>>,          \* 4.0 from the origin, in the cell before it
    <<9990, -9990, 5000>> }  \* alone, next to two faces of the domain

\* The position of slot i at the start of the longer runs.
RunPos(i) ==
  << <<-400, 0, 0>>, <<0, 0, 0>>, <<9990, -9990, 5000>>, <<100, 200, 0>> >>[(i % 4) + 1]

\* Slot i of a second placement: two particles 3.7 apart next to the corner
\* (0, 0, 0) of the cube the grid of a second initSimulation covers.
CornerPos(i) ==
  << <<-400, -400, -400>>, <<-100, -300, -200>> >>[(i % 2) + 1]

\* The contents cudaMalloc may leave in dev_vel1, which no code initialises.
VelSamples ==
  { <<30, 0, -40>>,          \* speed 0.5
    <<100, -100, 100>> }     \* speed 1.73, above maxSpeed

\* Pairs of positions around the faces and the middle of a grid cell: the
\* first particle, and the second as an offset from it of length below 5.0.
GeomPoints ==
  { <<0, 500, 999>>, <<499, 501, 1>>, <<500, 0, 501>>, <<999, 999, 499>>,
    <<1, 499, 500>>, <<501, 1, 0>>, <<10000, -10000, 9999>>,
    <<0, 0, 0>>, <<999, 999, 999>> }
GeomOffsets ==
  { <<499, 0, 0>>, <<-499, 0, 0>>, <<0, 499, 0>>, <<0, -499, 0>>,
    <<0, 0, 499>>, <<0, 0, -499>>, <<0, 0, 0>> }
    \cup { <<a, b, c>> : a \in {-288, 288}, b \in {-288, 288}, c \in {-288, 288} }

\* Slot i of dev_vel1 when slot 0 holds g: the samples in turn.
VelPattern(i, g) ==
  IF i % 2 = 0 THEN g ELSE CHOOSE h \in VelSamples : h # g

\* The time steps dt a caller may pass (0.2 and 600.0).
DtSamples == {20, 60000}

(***************************************************************************)
(* Arithmetic.                                                             *)
(***************************************************************************)
Abs(a) == IF a < 0 THEN -a ELSE a

\* a / b rounded to the nearest integer, b > 0.
RoundDiv(a, b) ==
  IF a >= 0 THEN (2 * a + b) \div (2 * b) ELSE -((2 * (-a) + b) \div (2 * b))

\* The C conversion (int)(a / b): truncation toward zero, b > 0.
TruncDiv(a, b) == IF a >= 0 THEN a \div b ELSE -((-a) \div b)

\* std::fmod(a, b): the remainder with the sign of a, b > 0.
FMod(a, b) == a - b * TruncDiv(a, b)

RECURSIVE SqrtSearch(_, _, _)
SqrtSearch(n, lo, hi) ==
  IF lo >= hi THEN lo
  ELSE LET mid == (lo + hi + 1) \div 2
       IN  IF mid * mid <= n THEN SqrtSearch(n, mid, hi)
           ELSE SqrtSearch(n, lo, mid - 1)

\* sqrt(n) rounded to the nearest integer.
Sqrt(n) ==
  LET r == SqrtSearch(n, 0, IF n > 46340 THEN 46340 ELSE n)
  IN  IF n - r * r > r THEN r + 1 ELSE r

Zero3 == <<0, 0, 0>>
VAdd(a, b) == <<a[1] + b[1], a[2] + b[2], a[3] + b[3]>>
VSub(a, b) == <<a[1] - b[1], a[2] - b[2], a[3] - b[3]>>
VMul(a, n) == <<a[1] * n, a[2] * n, a[3] * n>>
VDiv(a, d) == <<RoundDiv(a[1], d), RoundDiv(a[2], d), RoundDiv(a[3], d)>>
Dot(a, b) == a[1] * b[1] + a[2] * b[2] + a[3] * b[3]

\* glm::length(a) < d, decided on the squares.
LengthLess(a, d) == Dot(a, a) < d * d
\* glm::length(a), in fixed point.
Length(a) == Sqrt(Dot(a, a))

RECURSIVE SumSeq(_, _)
\* The sum of buf[s[1]], buf[s[2]], ...
SumSeq(s, buf) ==
  IF s = <<>> THEN Zero3 ELSE VAdd(buf[Head(s)], SumSeq(Tail(s), buf))

RECURSIVE SetToSeq(_)
\* The members of a set of integers in ascending order (a for loop over them).
SetToSeq(S) ==
  IF S = {} THEN <<>>
  ELSE LET m == CHOOSE x \in S : \A y \in S : x <= y
       IN  <<m>> \o SetToSeq(S \ {m})

(***************************************************************************)
(* State.                                                                  *)
(***************************************************************************)
VARIABLES
  numObjects,                       \* int numObjects
  heap,                             \* the two velocity allocations, "vel_a" and "vel_b"
  dev_pos,                          \* glm::vec3 *dev_pos (its contents)
  dev_vel1,                         \* glm::vec3 *dev_vel1 (the allocation it points to)
  dev_vel2,                         \* glm::vec3 *dev_vel2 (the allocation it points to)
  dev_particleArrayIndices,
  dev_particleGridIndices,
  dev_particleGridIndicesPosSort,
  dev_particleGridIndicesVelSort,
  dev_gridCellStartIndices,         \* the cells written since the last reset
  dev_gridCellEndIndices,
  gridCellCount,
  gridSideCount,
  gridCellWidth,
  gridMinimum,
  pc,                               \* the host: the step function it is in, and where
  dt,                               \* the dt argument of the running step function
  stream,                           \* the default stream: launched, not yet started
  cur,                              \* the kernel the device is running or ran last
  budget,                           \* step calls the run may still make
  pos0,                             \* history: dev_pos when the device began the step
  vel0,                             \* history: *dev_vel1 when the device began the step
  evalBuf,                          \* history: the allocation the last evaluation wrote
  evalVel,                          \* history: what the last evaluation wrote
  lastError,                        \* the error cudaGetLastError would return, if any
  live,                             \* the allocations made and not released
  freed,                            \* history: the pointers given to cudaFree, in order
  vbodptr_positions,                \* the buffers copyBoidsToVBO fills
  vbodptr_velocities,
  audit,                            \* whether the run records accesses and stages
  velShadow,                        \* history: the velocity slots written since cudaMalloc,
                                    \* and those read while not yet written
  stages                            \* history: the stages begun, in order

vars ==
  <<numObjects, heap, dev_pos, dev_vel1, dev_vel2, dev_particleArrayIndices,
    dev_particleGridIndices, dev_particleGridIndicesPosSort,
    dev_particleGridIndicesVelSort, dev_gridCellStartIndices,
    dev_gridCellEndIndices, gridCellCount, gridSideCount, gridCellWidth,
    gridMinimum, pc, dt, stream, cur, budget, pos0, vel0, evalBuf, evalVel,
    lastError, live, freed, vbodptr_positions, vbodptr_velocities, audit,
    velShadow, stages>>

Slots == 0 .. numObjects - 1

(***************************************************************************)
(* Grid geometry (Boids::initSimulation, lines 167-177).                   *)
(***************************************************************************)
Max(a, b) == IF a > b THEN a ELSE b

\* gridCellWidth = 2.0f * max(max(rule1Distance, rule2Distance), rule3Distance)
CellWidthOfRules == 2 * Max(Max(rule1Distance, rule2Distance), rule3Distance)

\* halfSideCount = (int)(scene_scale / gridCellWidth) + 1
HalfSideCount(cellWidth) == TruncDiv(scene_scale, cellWidth) + 1

\* gridSideCount = 2 * halfSideCount
SideCount(cellWidth) == 2 * HalfSideCount(cellWidth)

\* gridCellCount = gridSideCount * gridSideCount * gridSideCount
CellCount(side) == side * side * side

\* gridMinimum.x -= halfGridWidth, on every axis, from the value gridMinimum has.
GridMinimumAfterInit(old, cellWidth) ==
  LET halfGridWidth == cellWidth * HalfSideCount(cellWidth)
  IN  <<old[1] - halfGridWidth, old[2] - halfGridWidth, old[3] - halfGridWidth>>

(***************************************************************************)
(* The grid range buffers.  gridCellCount ints each; the model keeps the   *)
(* entries written since the last kernResetIntBuffer, every other entry    *)
(* holds the reset value -1.                                               *)
(***************************************************************************)
EmptyCells == [c \in {} |-> -1]
CellRead(buf, c) == IF c \in DOMAIN buf THEN buf[c] ELSE -1
CellWrite(buf, c, v) == (c :> v) @@ buf

(***************************************************************************)
(* GridIndexer: gridIndex3Dto1D and the cell of a position.                *)
(***************************************************************************)
gridIndex3Dto1D(x, y, z, gridResolution) ==
  x + y * gridResolution + z * gridResolution * gridResolution

\* int x = (pos.x - gridMin.x) * inverseCellWidth, and y, z alike.
Cell3D(p) ==
  <<TruncDiv(p[1] - gridMinimum[1], gridCellWidth),
    TruncDiv(p[2] - gridMinimum[2], gridCellWidth),
    TruncDiv(p[3] - gridMinimum[3], gridCellWidth)>>

CellIndex(p) ==
  LET c == Cell3D(p) IN gridIndex3Dto1D(c[1], c[2], c[3], gridSideCount)

(***************************************************************************)
(* Candidate cells of the grid evaluators (lines 489-542 and 688-715).     *)
(***************************************************************************)
\* Mutant: the remainder compared with cellWidth instead of cellWidth / 2.
InUpperHalfWholeCell(p, a) == FMod(p[a] - gridMinimum[a], gridCellWidth) > gridCellWidth

\* bool cell_x = std::fmod(pos.x - gridMin.x, cellWidth) > (cellWidth / 2)
InUpperHalf(p, a) == 2 * FMod(p[a] - gridMinimum[a], gridCellWidth) > gridCellWidth

\* int base_x = cell_x ? x : x - 1
BaseCell(p) ==
  LET c == Cell3D(p)
  IN  <<IF InUpperHalf(p, 1) THEN c[1] ELSE c[1] - 1,
        IF InUpperHalf(p, 2) THEN c[2] ELSE c[2] - 1,
        IF InUpperHalf(p, 3) THEN c[3] ELSE c[3] - 1>>

\* The t-th cell of the triple loop (i over z, j over y, k over x), t in 0..7.
BlockCell(p, t) ==
  LET b == BaseCell(p)
  IN  <<b[1] + (t % 2), b[2] + ((t \div 2) % 2), b[3] + (t \div 4)>>

\* Mutant: no test of the block cell against the grid (lines 536-538).
InGridUntested(c) == c = c

InGrid(c) ==
  /\ c[1] >= 0 /\ c[1] < gridSideCount
  /\ c[2] >= 0 /\ c[2] < gridSideCount
  /\ c[3] >= 0 /\ c[3] < gridSideCount

\* neighbor_cell_vec: the ids of the cells of the block inside the grid, in
\* loop order, then -1 up to eight entries.
NeighborCellVec(p) ==
  LET inside == SelectSeq([t \in 1 .. 8 |-> BlockCell(p, t - 1)], InGrid)
  IN  [t \in 1 .. 8 |->
         IF t <= Len(inside)
         THEN gridIndex3Dto1D(inside[t][1], inside[t][2], inside[t][3], gridSideCount)
         ELSE -1]

\* The test that decides whether a candidate cell is scanned (lines 570, 737).
CellHasBoids(c) ==
  /\ CellRead(dev_gridCellEndIndices, c) > CellRead(dev_gridCellStartIndices, c)
  /\ CellRead(dev_gridCellStartIndices, c) > 0

\* for (j = start; j < end; ++j) of one candidate cell: the j visited.
CellScan(c) ==
  IF c < 0 \/ ~CellHasBoids(c) THEN <<>>
  ELSE SetToSeq(CellRead(dev_gridCellStartIndices, c)
                  .. CellRead(dev_gridCellEndIndices, c) - 1)

\* The sort positions j the evaluation of a particle at p visits, in order.
ScanPositions(p) ==
  LET v == NeighborCellVec(p)
  IN  CellScan(v[1]) \o CellScan(v[2]) \o CellScan(v[3]) \o CellScan(v[4])
        \o CellScan(v[5]) \o CellScan(v[6]) \o CellScan(v[7]) \o CellScan(v[8])

(***************************************************************************)
(* The flocking rules.                                                     *)
(***************************************************************************)
\* Each coordinate brought into [-maxSpeed, maxSpeed] on its own.
RestrictPerAxis(v) ==
  [a \in 1 .. 3 |-> IF v[a] > maxSpeed THEN maxSpeed
                     ELSE IF v[a] < -maxSpeed THEN -maxSpeed ELSE v[a]]

\* if (glm::length(vel_change) > maxSpeed)
\*   vel_change = vel_change * (maxSpeed / glm::length(vel_change))
RestrictToMaxSpeed(v) ==
  IF Dot(v, v) > maxSpeed * maxSpeed THEN VDiv(VMul(v, maxSpeed), Length(v)) ELSE v

\* The other particles i of 0..N-1 with glm::length(pos[iSelf] - pos[i]) < d.
Within(N, iSelf, pos, d) ==
  SetToSeq({i \in 0 .. N - 1 : i # iSelf /\ LengthLess(VSub(pos[iSelf], pos[i]), d)})

kernUpdateVelocityRule1(N, iSelf, pos) ==
  LET near == Within(N, iSelf, pos, rule1Distance)
      sum == SumSeq(near, pos)
      rule1 == IF Len(near) # 0 THEN VDiv(sum, Len(near)) ELSE sum
  IN  VDiv(VSub(rule1, pos[iSelf]), rule1ScaleDiv)

kernUpdateVelocityRule2(N, iSelf, pos) ==
  LET near == Within(N, iSelf, pos, rule2Distance)
      \* rule2 = rule2 - (pos[i] - pos[iSelf]) for each
      rule2 == VSub(VMul(pos[iSelf], Len(near)), SumSeq(near, pos))
  IN  VDiv(rule2, rule2ScaleDiv)

\* Mutant: rule 3 with the commented-out line 300, rule3 /= count, in force.
Rule3Averaged(N, iSelf, pos, vel) ==
  LET near == Within(N, iSelf, pos, rule3Distance)
      sum == SumSeq(near, vel)
  IN  VDiv(IF Len(near) # 0 THEN VDiv(sum, Len(near)) ELSE sum, rule3ScaleDiv)

kernUpdateVelocityRule3(N, iSelf, pos, vel) ==
  LET near == Within(N, iSelf, pos, rule3Distance)
  IN  VDiv(SumSeq(near, vel), rule3ScaleDiv)

\* vel_change of computeVelocityChange before the restriction to maxSpeed.
VelocitySum(N, iSelf, pos, vel) ==
  VAdd(VAdd(VAdd(kernUpdateVelocityRule1(N, iSelf, pos),
                 kernUpdateVelocityRule2(N, iSelf, pos)),
            kernUpdateVelocityRule3(N, iSelf, pos, vel)),
       vel[iSelf])

computeVelocityChange(N, iSelf, pos, vel) ==
  RestrictToMaxSpeed(VelocitySum(N, iSelf, pos, vel))

\* The inner loop and the combination of the grid evaluators (lines 574-652,
\* the same text at 740-820): self is boid_index, nbrs the neighbor_index of
\* every j visited.
GridVelocitySum(self, nbrs, pos, vel) ==
  LET others == SelectSeq(nbrs, LAMBDA n : n # self)
      near1 == SelectSeq(others, LAMBDA n : LengthLess(VSub(pos[self], pos[n]), rule1Distance))
      near2 == SelectSeq(others, LAMBDA n : LengthLess(VSub(pos[self], pos[n]), rule2Distance))
      near3 == SelectSeq(others, LAMBDA n : LengthLess(VSub(pos[self], pos[n]), rule3Distance))
      sum1 == SumSeq(near1, pos)
      avg1 == IF Len(near1) # 0 THEN VDiv(sum1, Len(near1)) ELSE sum1
      rule1 == VDiv(VSub(avg1, pos[self]), rule1ScaleDiv)
      rule2 == VDiv(VSub(VMul(pos[self], Len(near2)), SumSeq(near2, pos)), rule2ScaleDiv)
      rule3 == VDiv(SumSeq(near3, vel), rule3ScaleDiv)
  IN  VAdd(VAdd(VAdd(rule1, rule2), rule3), vel[self])

GridVelocityChange(self, nbrs, pos, vel) ==
  RestrictToMaxSpeed(GridVelocitySum(self, nbrs, pos, vel))

\* kernUpdateVelNeighborSearchScattered, thread index: the slot it writes and
\* the velocity it writes there.
ScatteredSelfOfFirst(index) == dev_particleArrayIndices[0]

ScatteredSelf(index) == dev_particleArrayIndices[index]

ScatteredNeighbors(index) ==
  LET scan == ScanPositions(dev_pos[ScatteredSelf(index)])
  IN  [t \in 1 .. Len(scan) |-> dev_particleArrayIndices[scan[t]]]
kernUpdateVelNeighborSearchScattered(index, vel1) ==
  GridVelocityChange(ScatteredSelf(index), ScatteredNeighbors(index), dev_pos, vel1)

\* kernUpdateVelNeighborSearchCoherent, thread boid_index.
CoherentNeighbors(boid_index) == ScanPositions(dev_pos[boid_index])
kernUpdateVelNeighborSearchCoherent(boid_index, vel1) ==
  GridVelocityChange(boid_index, CoherentNeighbors(boid_index), dev_pos, vel1)

(***************************************************************************)
(* Integrator (kernUpdatePos, lines 354-373).                              *)
(***************************************************************************)
\* The coordinate brought into the domain by whole domain widths.
WrapAxisModulo(x) == ((x + scene_scale) % (2 * scene_scale)) - scene_scale

\* thisPos.x = thisPos.x < -scene_scale ? scene_scale : thisPos.x, then
\* thisPos.x = thisPos.x > scene_scale ? -scene_scale : thisPos.x
WrapAxis(x) ==
  LET low == IF x < -scene_scale THEN scene_scale ELSE x
  IN  IF low > scene_scale THEN -scene_scale ELSE low

kernUpdatePos(index, d, pos, vel) ==
  LET thisPos == VAdd(pos[index], VDiv(VMul(vel[index], d), Q))
  IN  <<WrapAxis(thisPos[1]), WrapAxis(thisPos[2]), WrapAxis(thisPos[3])>>

\* kernComputeIndices, thread index (COHERENT_GRID is 1): the cell id it
\* stores in gridIndices[index]; indices[index] = index.
kernComputeIndices(index, pos) == CellIndex(pos[index])

\* kernIdentifyCellStartEnd, thread index: the start and end buffers after it.
IdentifyEndInclusive(index, N, g, endBuf) ==
  IF index = N - 1 \/ g[index] # g[index + 1]
  THEN CellWrite(endBuf, g[index], index) ELSE endBuf

IdentifyStart(index, N, g, startBuf) ==
  IF index = 0 \/ g[index] # g[index - 1]
  THEN CellWrite(startBuf, g[index], index) ELSE startBuf

IdentifyEnd(index, N, g, endBuf) ==
  IF index = N - 1 \/ g[index] # g[index + 1]
  THEN CellWrite(endBuf, g[index], index + 1) ELSE endBuf

(***************************************************************************)
(* Memory locations a kernel thread touches: <<buffer, index>>.            *)
(***************************************************************************)
Loc(buf, S) == {<<buf, x>> : x \in S}
Range(s) == {s[t] : t \in DOMAIN s}

\* The locations of S in the allocations of dev_vel1 and dev_vel2.
VelLocs(S) == {l \in S : l[1] \in {"vel_a", "vel_b"}}

\* cudaMalloc writes nothing to the memory it returns.
NoneWritten == [written |-> {}, stale |-> {}]

\* velShadow after an access that reads rd and writes wr.
ShadowAfter(rd, wr) ==
  [written |-> velShadow.written \cup VelLocs(wr),
   stale |-> velShadow.stale \cup (VelLocs(rd) \ velShadow.written)]

ReadsComputeIndices(index) == Loc("dev_pos", {index})
WritesComputeIndices(index) ==
  Loc("dev_particleArrayIndices", {index}) \cup Loc("dev_particleGridIndices", {index})

ReadsIdentify(index) ==
  Loc("dev_particleGridIndices",
      {index} \cup (IF index = 0 THEN {} ELSE {index - 1})
              \cup (IF index = numObjects - 1 THEN {} ELSE {index + 1}))
WritesIdentify(index) ==
  LET g == dev_particleGridIndices
  IN  (IF index = 0 \/ g[index] # g[index - 1]
       THEN Loc("dev_gridCellStartIndices", {g[index]}) ELSE {})
      \cup
      (IF index = numObjects - 1 \/ g[index] # g[index + 1]
       THEN Loc("dev_gridCellEndIndices", {g[index]}) ELSE {})

ReadsBruteForce(index, v1) ==
  Loc("dev_pos", Slots)
    \cup Loc(v1, {index} \cup Range(Within(numObjects, index, dev_pos, rule3Distance)))
WritesBruteForce(index, v2) == Loc(v2, {index})

\* What a grid evaluation reads of the range buffers, positions and
\* velocities: self is the slot of its particle, nbrs the slots it visits.
ReadsGrid(self, nbrs, v1) ==
  LET cells == {c \in Range(NeighborCellVec(dev_pos[self])) : c >= 0}
      others == {n \in Range(nbrs) : n # self}
  IN  Loc("dev_gridCellStartIndices", cells) \cup Loc("dev_gridCellEndIndices", cells)
        \cup Loc("dev_pos", {self} \cup others)
        \cup Loc(v1, {self} \cup {n \in others :
                        LengthLess(VSub(dev_pos[self], dev_pos[n]), rule3Distance)})

ReadsScattered(index, v1) ==
  Loc("dev_particleArrayIndices",
      {index} \cup Range(ScanPositions(dev_pos[ScatteredSelf(index)])))
    \cup ReadsGrid(ScatteredSelf(index), ScatteredNeighbors(index), v1)
WritesScattered(index, v2) == Loc(v2, {ScatteredSelf(index)})

ReadsCoherent(boid_index, v1) ==
  ReadsGrid(boid_index, CoherentNeighbors(boid_index), v1)
WritesCoherent(boid_index, v2) == Loc(v2, {boid_index})

ReadsUpdatePos(index, vel) == Loc("dev_pos", {index}) \cup Loc(vel, {index})
WritesUpdatePos(index) == Loc("dev_pos", {index})

(***************************************************************************)
(* The host: the step functions as the sequence of their calls.            *)
(***************************************************************************)
\* chk: the call is followed by checkCUDAErrorWithLine.
Launch(k, buf) == [t |-> "launch", k |-> k, buf |-> buf, chk |-> FALSE]
LaunchChecked(k, buf) == [t |-> "launch", k |-> k, buf |-> buf, chk |-> TRUE]
SortByKey(payload) ==
  [t |-> "sort", k |-> "thrust::sort_by_key", buf |-> payload, chk |-> FALSE]
SwapVel == [t |-> "swap", k |-> "", buf |-> "", chk |-> FALSE]

stepSimulationNaive ==
  << Launch("kernUpdateVelocityBruteForce", ""),
     Launch("kernUpdatePos", ""),
     SwapVel >>

\* The calls of stepSimulationScatteredGrid with the evaluation launched
\* before the range-build.
ScatteredGridEvaluationFirst ==
  << Launch("kernResetIntBuffer", "dev_gridCellStartIndices"),
     Launch("kernResetIntBuffer", "dev_gridCellEndIndices"),
     LaunchChecked("kernComputeIndices", ""),
     SortByKey("dev_particleArrayIndices"),
     LaunchChecked("kernUpdateVelNeighborSearchScattered", ""),
     LaunchChecked("kernIdentifyCellStartEnd", ""),
     LaunchChecked("kernUpdatePos", ""),
     SwapVel >>

stepSimulationScatteredGrid ==
  << Launch("kernResetIntBuffer", "dev_gridCellStartIndices"),
     Launch("kernResetIntBuffer", "dev_gridCellEndIndices"),
     LaunchChecked("kernComputeIndices", ""),
     SortByKey("dev_particleArrayIndices"),
     LaunchChecked("kernIdentifyCellStartEnd", ""),
     LaunchChecked("kernUpdateVelNeighborSearchScattered", ""),
     LaunchChecked("kernUpdatePos", ""),
     SwapVel >>

stepSimulationCoherentGrid ==
  << Launch("kernResetIntBuffer", "dev_gridCellStartIndices"),
     Launch("kernResetIntBuffer", "dev_gridCellEndIndices"),
     LaunchChecked("kernComputeIndices", ""),
     Launch("cudaMemcpy", "dev_particleGridIndicesPosSort"),
     Launch("cudaMemcpy", "dev_particleGridIndicesVelSort"),
     SortByKey("dev_particleArrayIndices"),
     SortByKey("dev_pos"),
     SortByKey("dev_vel1"),
     LaunchChecked("kernIdentifyCellStartEnd", ""),
     LaunchChecked("kernUpdateVelNeighborSearchCoherent", ""),
     LaunchChecked("kernUpdatePos", ""),
     SwapVel >>

Strategies == {"Naive", "ScatteredGrid", "CoherentGrid"}

Body(fn) ==
  CASE fn = "Naive" -> stepSimulationNaive
    [] fn = "ScatteredGrid" -> stepSimulationScatteredGrid
    [] fn = "CoherentGrid" -> stepSimulationCoherentGrid

Idle == [fn |-> "idle", i |-> 0]
\* The host after exit(EXIT_FAILURE) and after Boids::endSimulation.
Exited == [fn |-> "exited", i |-> 0]
Ended == [fn |-> "ended", i |-> 0]
InStep == pc.fn \in Strategies
Instr == Body(pc.fn)[pc.i]

\* What initSimulation allocates with cudaMalloc.
Allocations ==
  {"vel_a", "vel_b", "dev_pos", "dev_particleArrayIndices", "dev_particleGridIndices",
   "dev_gridCellStartIndices", "dev_gridCellEndIndices",
   "dev_particleGridIndicesPosSort", "dev_particleGridIndicesVelSort"}

\* The threads of a kernel.  kernResetIntBuffer has one thread per grid cell,
\* each storing the value in its own entry: the model runs them as one.
NoOp ==
  [k |-> "none", buf |-> "", v1 |-> "vel_a", v2 |-> "vel_b", dt |-> 0,
   first |-> FALSE, fn |-> "none"]
Units(op) ==
  IF op.k = "none" THEN {}
  ELSE IF op.k \in {"kernResetIntBuffer", "cudaMemcpy"} THEN {0}
  ELSE Slots

CurFinished == cur.done = Units(cur.op)
DeviceIdle == stream = <<>> /\ CurFinished

(***************************************************************************)
(* Initial state: the state Boids::initSimulation(N) leaves.               *)
(***************************************************************************)
\* The state initSimulation(N) leaves, with the positions pos, the contents
\* velA of *dev_vel1 and velB of *dev_vel2, and steps step calls to come.
InitWith(N, pos, velA, velB, steps, rec) ==
  /\ numObjects = N
  /\ dev_pos = pos
  /\ heap = [vel_a |-> velA, vel_b |-> velB]
  /\ dev_vel1 = "vel_a"
  /\ dev_vel2 = "vel_b"
  \* kernResetIndexBuffer
  /\ dev_particleArrayIndices = [i \in 0 .. N - 1 |-> i]
  \* The next five come from cudaMalloc; every step function overwrites what
  \* it reads of them before it reads it.
  /\ dev_particleGridIndices = [i \in 0 .. N - 1 |-> 0]
  /\ dev_particleGridIndicesPosSort = [i \in 0 .. N - 1 |-> 0]
  /\ dev_particleGridIndicesVelSort = [i \in 0 .. N - 1 |-> 0]
  /\ dev_gridCellStartIndices = EmptyCells
  /\ dev_gridCellEndIndices = EmptyCells
  /\ gridCellWidth = CellWidthOfRules
  /\ gridSideCount = SideCount(CellWidthOfRules)
  /\ gridCellCount = CellCount(SideCount(CellWidthOfRules))
  /\ gridMinimum = GridMinimumAfterInit(Zero3, CellWidthOfRules)
  /\ pc = Idle
  /\ dt = 0
  /\ stream = <<>>
  /\ cur = [op |-> NoOp, done |-> {}, rd |-> {}, wr |-> {}]
  /\ budget = steps
  /\ pos0 = pos
  /\ vel0 = velA
  /\ evalBuf = "none"
  /\ evalVel = velA
  /\ lastError = FALSE
  /\ live = Allocations
  /\ freed = <<>>
  \* The caller's buffers, not yet written.
  /\ vbodptr_positions = [i \in 0 .. N - 1 |-> <<0, 0, 0, 0>>]
  /\ vbodptr_velocities = [i \in 0 .. N - 1 |-> <<0, 0, 0, 0>>]
  /\ audit = rec
  /\ velShadow = NoneWritten
  /\ stages = <<>>

\* A run of up to MaxSteps steps.  dev_vel1 and dev_vel2 come from cudaMalloc
\* and are not written: the samples, in either order.
Init ==
  \E N \in 1 .. MaxN, g \in VelSamples :
    InitWith(N, [i \in 0 .. N - 1 |-> RunPos(i)],
             [i \in 0 .. N - 1 |-> VelPattern(i, g)],
             [i \in 0 .. N - 1 |-> g], MaxSteps, FALSE)

\* One step, from every placement of the particles on the sample positions.
InitStep ==
  \E N \in 1 .. MaxN, g \in VelSamples :
    \E pos \in [0 .. N - 1 -> PosSamples] :
      InitWith(N, pos, [i \in 0 .. N - 1 |-> VelPattern(i, g)],
               [i \in 0 .. N - 1 |-> g], 1, FALSE)

\* The position p is inside the domain kernGenerateRandomPosArray and
\* kernUpdatePos keep the particles in.
InDomain(p) == \A a \in 1 .. 3 : p[a] >= -scene_scale /\ p[a] <= scene_scale

\* One step of two particles less than a rule distance apart.
InitGeom ==
  \E p \in GeomPoints, o \in GeomOffsets :
    /\ InDomain(VAdd(p, o))
    /\ InitWith(2, [i \in 0 .. 1 |-> IF i = 0 THEN p ELSE VAdd(p, o)],
                [i \in 0 .. 1 |-> <<30, 0, -40>>], [i \in 0 .. 1 |-> Zero3], 1, FALSE)

\* The same, recording the accesses of every thread and the stages begun.
InitAudit ==
  \E N \in 1 .. MaxN :
    \E pos \in [0 .. N - 1 -> {<<0, 0, 0>>, <<100, 200, 0>>, <<-400, 0, 0>>}] :
      InitWith(N, pos, [i \in 0 .. N - 1 |-> VelPattern(i, <<30, 0, -40>>)],
               [i \in 0 .. N - 1 |-> Zero3], 1, TRUE)

vboVars == <<vbodptr_positions, vbodptr_velocities>>
lifeVars == <<lastError, live, freed>>
gridVars == <<gridCellCount, gridSideCount, gridCellWidth, gridMinimum>>
hostVars == <<pc, dt, budget, dev_vel1, dev_vel2>>
sortVars ==
  <<dev_particleArrayIndices, dev_particleGridIndices,
    dev_particleGridIndicesPosSort, dev_particleGridIndicesVelSort>>
rangeVars == <<dev_gridCellStartIndices, dev_gridCellEndIndices>>
histVars == <<pos0, vel0, evalBuf, evalVel>>

\* The stage of the step a call belongs to.
StageOf(k) ==
  CASE k = "kernResetIntBuffer" -> "reset"
    [] k = "kernComputeIndices" -> "index"
    [] k = "cudaMemcpy" -> "index"
    [] k = "thrust::sort_by_key" -> "sort"
    [] k = "kernIdentifyCellStartEnd" -> "range"
    [] k \in {"kernUpdateVelocityBruteForce", "kernUpdateVelNeighborSearchScattered",
              "kernUpdateVelNeighborSearchCoherent"} -> "evaluation"
    [] k = "kernUpdatePos" -> "integration"
    [] OTHER -> "swap"

\* The stages after a call of stage st begins while the calls before it are
\* all complete (settled) or not.
StageBegun(st, settled) ==
  IF audit THEN Append(stages, [stage |-> st, settled |-> settled]) ELSE stages

(***************************************************************************)
(* Host actions.                                                           *)
(***************************************************************************)
\* A call of Boids::stepSimulationNaive / ScatteredGrid / CoherentGrid (d).
StepSimulation(fn, d) ==
  /\ pc = Idle
  /\ budget > 0
  /\ pc' = [fn |-> fn, i |-> 1]
  /\ dt' = d
  /\ budget' = budget - 1
  /\ UNCHANGED <<numObjects, heap, dev_pos, dev_vel1, dev_vel2, sortVars,
                 rangeVars, gridVars, stream, cur, histVars, vboVars, lifeVars, audit,
                 velShadow, stages>>

\* kernel<<<...>>>(...), or cudaMemcpy device to device: queued, not waited for.
HostLaunch ==
  /\ InStep
  /\ Instr.t = "launch"
  /\ stream' = Append(stream,
                 [k |-> Instr.k, buf |-> Instr.buf, v1 |-> dev_vel1, v2 |-> dev_vel2,
                  dt |-> dt, first |-> (pc.i = 1), fn |-> pc.fn])
  \* checkCUDAError: exit if an earlier launch has left an error
  /\ pc' = IF Instr.chk /\ lastError THEN Exited ELSE [pc EXCEPT !.i = @ + 1]
  /\ UNCHANGED <<numObjects, heap, dev_pos, dev_vel1, dev_vel2, sortVars,
                 rangeVars, gridVars, dt, cur, budget, histVars, vboVars, lifeVars,
                 audit, velShadow, stages>>

\* The orders thrust::sort_by_key may give: perm[i] is the place before the
\* sort of the pair at place i after it; equal keys in any order.
\* Mutant: a sort that puts the keys in descending order.
SortOrdersDescending(keys) ==
  {perm \in [Slots -> Slots] :
     /\ \A i, j \in Slots : i # j => perm[i] # perm[j]
     /\ \A i, j \in Slots : i < j => keys[perm[i]] >= keys[perm[j]]}

SortOrders(keys) ==
  {perm \in [Slots -> Slots] :
     /\ \A i, j \in Slots : i # j => perm[i] # perm[j]
     /\ \A i, j \in Slots : i < j => keys[perm[i]] <= keys[perm[j]]}
Permuted(buf, perm) == [i \in Slots |-> buf[perm[i]]]

\* thrust::sort_by_key(keys, keys + numObjects, payload)
HostSortByKey ==
  /\ InStep
  /\ Instr.t = "sort"
  /\ DeviceIdle
  /\ pc' = [pc EXCEPT !.i = @ + 1]
  /\ IF Instr.buf = "dev_particleArrayIndices"
     THEN \E perm \in SortOrders(dev_particleGridIndices) :
            /\ dev_particleGridIndices' = Permuted(dev_particleGridIndices, perm)
            /\ dev_particleArrayIndices' = Permuted(dev_particleArrayIndices, perm)
            /\ UNCHANGED <<dev_particleGridIndicesPosSort,
                           dev_particleGridIndicesVelSort, dev_pos, heap, velShadow>>
     ELSE IF Instr.buf = "dev_pos"
     THEN \E perm \in SortOrders(dev_particleGridIndicesPosSort) :
            /\ dev_particleGridIndicesPosSort' = Permuted(dev_particleGridIndicesPosSort, perm)
            /\ dev_pos' = Permuted(dev_pos, perm)
            /\ UNCHANGED <<dev_particleGridIndices, dev_particleArrayIndices,
                           dev_particleGridIndicesVelSort, heap, velShadow>>
     ELSE \E perm \in SortOrders(dev_particleGridIndicesVelSort) :
            /\ dev_particleGridIndicesVelSort' = Permuted(dev_particleGridIndicesVelSort, perm)
            /\ heap' = [heap EXCEPT ![dev_vel1] = Permuted(heap[dev_vel1], perm)]
            \* the sort reads every slot of *dev_vel1 and moves its contents
            /\ velShadow' =
                 [written |-> {l \in velShadow.written : l[1] # dev_vel1}
                                \cup {<<dev_vel1, i>> : i \in
                                        {j \in Slots : <<dev_vel1, perm[j]>> \in velShadow.written}},
                  stale |-> velShadow.stale
                              \cup (Loc(dev_vel1, Slots) \ velShadow.written)]
            /\ UNCHANGED <<dev_particleGridIndices, dev_particleArrayIndices,
                           dev_particleGridIndicesPosSort, dev_pos>>
  /\ stages' = StageBegun("sort", DeviceIdle)
  /\ UNCHANGED <<numObjects, dev_vel1, dev_vel2, rangeVars, gridVars, dt,
                 stream, cur, budget, histVars, vboVars, lifeVars, audit>>

\* The return of a step function that leaves dev_vel1 and dev_vel2 as they are.
HostReturnWithoutSwap ==
  /\ InStep
  /\ Instr.t = "swap"
  /\ pc' = Idle
  /\ dt' = 0
  /\ stages' = StageBegun("swap", DeviceIdle)
  /\ UNCHANGED <<numObjects, heap, dev_pos, dev_vel1, dev_vel2, sortVars, rangeVars,
                 gridVars, stream, cur, budget, histVars, vboVars, lifeVars, audit, velShadow>>

\* tmp_pt = dev_vel1; dev_vel1 = dev_vel2; dev_vel2 = tmp_pt; and the return.
HostSwap ==
  /\ InStep
  /\ Instr.t = "swap"
  /\ dev_vel1' = dev_vel2
  /\ dev_vel2' = dev_vel1
  /\ pc' = Idle
  /\ dt' = 0
  /\ stages' = StageBegun("swap", DeviceIdle)
  /\ UNCHANGED <<numObjects, heap, dev_pos, sortVars, rangeVars, gridVars,
                 stream, cur, budget, histVars, vboVars, lifeVars, audit, velShadow>>

\* kernCopyPositionsToVBO, thread index: pos[index] * (-1.0f / s_scale), 1.0f.
kernCopyPositionsToVBO(index, pos) ==
  << RoundDiv(-pos[index][1] * Q, scene_scale), RoundDiv(-pos[index][2] * Q, scene_scale),
     RoundDiv(-pos[index][3] * Q, scene_scale), Q >>

\* kernCopyVelocitiesToVBO, thread index: vel[index] + 0.3f, 1.0f.
kernCopyVelocitiesToVBO(index, vel) ==
  << vel[index][1] + (3 * Q) \div 10, vel[index][2] + (3 * Q) \div 10,
     vel[index][3] + (3 * Q) \div 10, Q >>

\* Boids::copyBoidsToVBO: the two kernels with dev_pos and dev_vel1, then
\* cudaThreadSynchronize: the host returns when the device has run them,
\* after everything launched before.
copyBoidsToVBO ==
  /\ pc = Idle
  /\ DeviceIdle
  /\ vbodptr_positions' = [i \in Slots |-> kernCopyPositionsToVBO(i, dev_pos)]
  /\ vbodptr_velocities' = [i \in Slots |-> kernCopyVelocitiesToVBO(i, heap[dev_vel1])]
  /\ velShadow' = ShadowAfter(Loc(dev_vel1, Slots), {})
  /\ UNCHANGED <<numObjects, heap, dev_pos, dev_vel1, dev_vel2, sortVars, rangeVars,
                 gridVars, pc, dt, stream, cur, budget, histVars, lifeVars, audit,
                 stages>>

(***************************************************************************)
(* Device actions: one thread of the kernel at the head of the stream.     *)
(* A kernel starts when every thread of the kernel before it has ended.    *)
(***************************************************************************)
\* The kernel thread i would run in: the running one, or the next of the stream.
TheOp == IF CurFinished THEN Head(stream) ELSE cur.op

CanRun(k, i) ==
  IF CurFinished
  THEN stream # <<>> /\ Head(stream).k = k /\ i \in Units(Head(stream))
  ELSE cur.op.k = k /\ i \in Units(cur.op) \ cur.done

Tagged(i, locs) == {<<i, l>> : l \in locs}

\* Thread i runs, reading rd and writing wr.
RunThread(i, rd, wr) ==
  /\ cur' = IF CurFinished
            THEN [op |-> Head(stream), done |-> {i},
                  rd |-> IF audit THEN Tagged(i, rd) ELSE {},
                  wr |-> IF audit THEN Tagged(i, wr) ELSE {}]
            ELSE [op |-> cur.op, done |-> cur.done \cup {i},
                  rd |-> IF audit THEN cur.rd \cup Tagged(i, rd) ELSE {},
                  wr |-> IF audit THEN cur.wr \cup Tagged(i, wr) ELSE {}]
  /\ stream' = IF CurFinished THEN Tail(stream) ELSE stream
  /\ pos0' = IF CurFinished /\ Head(stream).first THEN dev_pos ELSE pos0
  /\ vel0' = IF CurFinished /\ Head(stream).first THEN heap[Head(stream).v1] ELSE vel0
  /\ stages' = IF CurFinished
               THEN StageBegun(StageOf(Head(stream).k), cur.done = Units(cur.op))
               ELSE stages
  /\ velShadow' = ShadowAfter(rd, wr)
  /\ UNCHANGED <<audit, vboVars, lifeVars>>

\* An evaluation thread stores v in slot s of the buffer it was given as vel2.
StoreVelocity(op, s, v) ==
  /\ heap' = [heap EXCEPT ![op.v2][s] = v]
  /\ evalBuf' = op.v2
  /\ evalVel' = [evalVel EXCEPT ![s] = v]

DevResetIntBuffer ==
  /\ CanRun("kernResetIntBuffer", 0)
  /\ RunThread(0, {}, {})
  /\ IF TheOp.buf = "dev_gridCellStartIndices"
     THEN dev_gridCellStartIndices' = EmptyCells /\ UNCHANGED dev_gridCellEndIndices
     ELSE dev_gridCellEndIndices' = EmptyCells /\ UNCHANGED dev_gridCellStartIndices
  /\ UNCHANGED <<numObjects, heap, dev_pos, sortVars, gridVars, hostVars,
                 evalBuf, evalVel>>

DevMemcpy ==
  /\ CanRun("cudaMemcpy", 0)
  /\ RunThread(0, {}, {})
  /\ IF TheOp.buf = "dev_particleGridIndicesPosSort"
     THEN /\ dev_particleGridIndicesPosSort' = dev_particleGridIndices
          /\ UNCHANGED dev_particleGridIndicesVelSort
     ELSE /\ dev_particleGridIndicesVelSort' = dev_particleGridIndices
          /\ UNCHANGED dev_particleGridIndicesPosSort
  /\ UNCHANGED <<numObjects, heap, dev_pos, dev_particleArrayIndices,
                 dev_particleGridIndices, rangeVars, gridVars, hostVars,
                 evalBuf, evalVel>>

DevComputeIndices(index) ==
  /\ CanRun("kernComputeIndices", index)
  /\ RunThread(index, ReadsComputeIndices(index), WritesComputeIndices(index))
  /\ dev_particleArrayIndices' = [dev_particleArrayIndices EXCEPT ![index] = index]
  /\ dev_particleGridIndices' =
       [dev_particleGridIndices EXCEPT ![index] = kernComputeIndices(index, dev_pos)]
  /\ UNCHANGED <<numObjects, heap, dev_pos, dev_particleGridIndicesPosSort,
                 dev_particleGridIndicesVelSort, rangeVars, gridVars, hostVars,
                 evalBuf, evalVel>>

DevIdentifyCellStartEnd(index) ==
  /\ CanRun("kernIdentifyCellStartEnd", index)
  /\ RunThread(index, ReadsIdentify(index), WritesIdentify(index))
  /\ dev_gridCellStartIndices' =
       IdentifyStart(index, numObjects, dev_particleGridIndices, dev_gridCellStartIndices)
  /\ dev_gridCellEndIndices' =
       IdentifyEnd(index, numObjects, dev_particleGridIndices, dev_gridCellEndIndices)
  /\ UNCHANGED <<numObjects, heap, dev_pos, sortVars, gridVars, hostVars,
                 evalBuf, evalVel>>

DevUpdateVelocityBruteForce(index) ==
  /\ CanRun("kernUpdateVelocityBruteForce", index)
  /\ RunThread(index, ReadsBruteForce(index, TheOp.v1), WritesBruteForce(index, TheOp.v2))
  /\ StoreVelocity(TheOp, index,
                   computeVelocityChange(numObjects, index, dev_pos, heap[TheOp.v1]))
  /\ UNCHANGED <<numObjects, dev_pos, sortVars, rangeVars, gridVars, hostVars>>

DevUpdateVelNeighborSearchScattered(index) ==
  /\ CanRun("kernUpdateVelNeighborSearchScattered", index)
  /\ RunThread(index, ReadsScattered(index, TheOp.v1), WritesScattered(index, TheOp.v2))
  /\ StoreVelocity(TheOp, ScatteredSelf(index),
                   kernUpdateVelNeighborSearchScattered(index, heap[TheOp.v1]))
  /\ UNCHANGED <<numObjects, dev_pos, sortVars, rangeVars, gridVars, hostVars>>

DevUpdateVelNeighborSearchCoherent(boid_index) ==
  /\ CanRun("kernUpdateVelNeighborSearchCoherent", boid_index)
  /\ RunThread(boid_index, ReadsCoherent(boid_index, TheOp.v1),
               WritesCoherent(boid_index, TheOp.v2))
  /\ StoreVelocity(TheOp, boid_index,
                   kernUpdateVelNeighborSearchCoherent(boid_index, heap[TheOp.v1]))
  /\ UNCHANGED <<numObjects, dev_pos, sortVars, rangeVars, gridVars, hostVars>>

\* kernUpdatePos is launched with dev_vel2 as its vel.
DevUpdatePos(index) ==
  /\ CanRun("kernUpdatePos", index)
  /\ RunThread(index, ReadsUpdatePos(index, TheOp.v2), WritesUpdatePos(index))
  /\ dev_pos' = [dev_pos EXCEPT ![index] = kernUpdatePos(index, TheOp.dt, dev_pos, heap[TheOp.v2])]
  /\ UNCHANGED <<numObjects, heap, sortVars, rangeVars, gridVars, hostVars,
                 evalBuf, evalVel>>

(***************************************************************************)
(* The rest of the life of the process: shutdown, a further                *)
(* initialisation, and calls that fail.                                    *)
(***************************************************************************)
\* The pointers Boids::endSimulation gives to cudaFree, in order, with
\* dev_vel1 given twice and dev_vel2 never.
FreedTwiceVel1 ==
  << dev_vel1, dev_vel1, "dev_pos", "dev_gridCellStartIndices",
     "dev_gridCellEndIndices", "dev_particleArrayIndices", "dev_particleGridIndices",
     "dev_particleGridIndicesPosSort", "dev_particleGridIndicesVelSort" >>

\* The pointers Boids::endSimulation gives to cudaFree, in order.
FreedByEnd ==
  << dev_vel1, dev_vel2, "dev_pos", "dev_gridCellStartIndices",
     "dev_gridCellEndIndices", "dev_particleArrayIndices", "dev_particleGridIndices",
     "dev_particleGridIndicesPosSort", "dev_particleGridIndicesVelSort" >>

\* Boids::endSimulation.  cudaFree waits for the device.
endSimulation ==
  /\ pc = Idle
  /\ DeviceIdle
  /\ pc' = Ended
  /\ freed' = freed \o FreedByEnd
  /\ live' = live \ Range(FreedByEnd)
  /\ UNCHANGED <<numObjects, heap, dev_pos, dev_vel1, dev_vel2, sortVars, rangeVars,
                 gridVars, dt, stream, cur, budget, histVars, vboVars, lastError,
                 audit, velShadow, stages>>

\* Boids::initSimulation(N) called again after endSimulation: the globals
\* keep the values the earlier run left, and gridMinimum is decremented from
\* the value it has.  g: what cudaMalloc leaves in slot 0 of *dev_vel1.
initSimulation(N, g) ==
  /\ pc = Ended
  /\ gridMinimum[1] > -MaxInits * CellWidthOfRules * HalfSideCount(CellWidthOfRules)
  /\ numObjects' = N
  /\ \E gen \in {[i \in 0 .. N - 1 |-> RunPos(i)], [i \in 0 .. N - 1 |-> CornerPos(i)]} :
       /\ dev_pos' = gen
       /\ pos0' = gen
  /\ heap' = [vel_a |-> [i \in 0 .. N - 1 |-> VelPattern(i, g)],
              vel_b |-> [i \in 0 .. N - 1 |-> g]]
  /\ dev_vel1' = "vel_a"
  /\ dev_vel2' = "vel_b"
  /\ dev_particleArrayIndices' = [i \in 0 .. N - 1 |-> i]
  /\ dev_particleGridIndices' = [i \in 0 .. N - 1 |-> 0]
  /\ dev_particleGridIndicesPosSort' = [i \in 0 .. N - 1 |-> 0]
  /\ dev_particleGridIndicesVelSort' = [i \in 0 .. N - 1 |-> 0]
  /\ dev_gridCellStartIndices' = EmptyCells
  /\ dev_gridCellEndIndices' = EmptyCells
  /\ gridCellWidth' = CellWidthOfRules
  /\ gridSideCount' = SideCount(CellWidthOfRules)
  /\ gridCellCount' = CellCount(SideCount(CellWidthOfRules))
  /\ gridMinimum' = GridMinimumAfterInit(gridMinimum, CellWidthOfRules)
  /\ pc' = Idle
  /\ dt' = 0
  /\ stream' = <<>>
  /\ cur' = [op |-> NoOp, done |-> {}, rd |-> {}, wr |-> {}]
  /\ budget' = 1
  /\ vel0' = [i \in 0 .. N - 1 |-> VelPattern(i, g)]
  /\ evalBuf' = "none"
  /\ evalVel' = [i \in 0 .. N - 1 |-> VelPattern(i, g)]
  /\ lastError' = FALSE
  /\ live' = Allocations
  /\ freed' = <<>>
  /\ velShadow' = NoneWritten
  /\ vbodptr_positions' = [i \in 0 .. N - 1 |-> <<0, 0, 0, 0>>]
  /\ vbodptr_velocities' = [i \in 0 .. N - 1 |-> <<0, 0, 0, 0>>]
  /\ stages' = <<>>
  /\ UNCHANGED audit

\* Boids::initSimulation(N) in which a cudaMalloc fails: checkCUDAError
\* exits, the allocations made before it (got) standing.
initSimulationFails(got) ==
  /\ pc = Ended
  /\ got # Allocations
  /\ pc' = Exited
  /\ lastError' = TRUE
  /\ live' = got
  /\ UNCHANGED <<numObjects, heap, dev_pos, dev_vel1, dev_vel2, sortVars, rangeVars,
                 gridVars, dt, stream, cur, budget, histVars, vboVars, freed, audit, velShadow,
                 stages>>

\* A kernel launch (or cudaMemcpy) of a step function that fails: nothing is
\* queued, cudaGetLastError will return the error; if the call is followed
\* by checkCUDAErrorWithLine the process exits, otherwise the host goes on.
HostLaunchFails ==
  /\ InStep
  /\ Instr.t = "launch"
  /\ ~lastError
  /\ lastError' = TRUE
  /\ pc' = IF Instr.chk THEN Exited ELSE [pc EXCEPT !.i = @ + 1]
  /\ UNCHANGED <<numObjects, heap, dev_pos, dev_vel1, dev_vel2, sortVars, rangeVars,
                 gridVars, dt, stream, cur, budget, histVars, vboVars, live, freed,
                 audit, velShadow, stages>>

Next ==
  \/ \E fn \in Strategies, d \in DtSamples : StepSimulation(fn, d)
  \/ HostLaunch
  \/ HostSortByKey
  \/ HostSwap
  \/ copyBoidsToVBO
  \/ DevResetIntBuffer
  \/ DevMemcpy
  \/ \E i \in Slots : DevComputeIndices(i)
  \/ \E i \in Slots : DevIdentifyCellStartEnd(i)
  \/ \E i \in Slots : DevUpdateVelocityBruteForce(i)
  \/ \E i \in Slots : DevUpdateVelNeighborSearchScattered(i)
  \/ \E i \in Slots : DevUpdateVelNeighborSearchCoherent(i)
  \/ \E i \in Slots : DevUpdatePos(i)

Spec == Init /\ [][Next]_vars

SpecStep == InitStep /\ [][Next]_vars

SpecAudit == InitAudit /\ [][Next]_vars

SpecGeom == InitGeom /\ [][Next]_vars

\* A process from its first initSimulation on, with shutdown, further
\* initialisations and failing calls.
InitLife ==
  \E N \in 1 .. 2 :
    InitWith(N, [i \in 0 .. N - 1 |-> RunPos(i)],
             [i \in 0 .. N - 1 |-> VelPattern(i, <<30, 0, -40>>)],
             [i \in 0 .. N - 1 |-> <<30, 0, -40>>], MaxSteps, FALSE)

NextLife ==
  \/ Next
  \/ endSimulation
  \/ \E N \in 1 .. 2, g \in VelSamples : initSimulation(N, g)
  \/ \E got \in {{}, {"dev_pos"}, {"dev_pos", "vel_a"}} : initSimulationFails(got)
  \/ HostLaunchFails

SpecLife == InitLife /\ [][NextLife]_vars

(***************************************************************************)
(* Claims.                                                                 *)
(***************************************************************************)
GridEvaluations ==
  {"kernUpdateVelNeighborSearchScattered", "kernUpdateVelNeighborSearchCoherent"}
Evaluations == GridEvaluations \cup {"kernUpdateVelocityBruteForce"}

\* The particle (its slot at the start of the step) that thread i of the
\* running evaluation computes, and the slot the thread writes.
ParticleOf(i) ==
  IF cur.op.k = "kernUpdateVelocityBruteForce" THEN i ELSE dev_particleArrayIndices[i]
WrittenSlot(i) ==
  IF cur.op.k = "kernUpdateVelNeighborSearchScattered" THEN dev_particleArrayIndices[i] ELSE i

\* C1: one step with ScatteredGrid or CoherentGrid gives every particle the
\* next velocity that BruteForce computes from the same positions and
\* velocities (the particle of sort position i is the one the sorted array
\* index names).
C1_GridEqualsBruteForce ==
  cur.op.k \in GridEvaluations =>
    \A i \in cur.done :
      heap[cur.op.v2][WrittenSlot(i)]
        = computeVelocityChange(numObjects, ParticleOf(i), pos0, vel0)

\* A particle with no other particle within any of the three rule distances.
Isolated(s, pos) ==
  \A o \in DOMAIN pos :
    o # s => ~LengthLess(VSub(pos[s], pos[o]),
                         Max(Max(rule1Distance, rule2Distance), rule3Distance))

\* C2: in every strategy a particle with no other particle within any rule
\* distance gets velocityNext equal to its velocityCurrent.  Stated for the
\* current velocities of speed at most maxSpeed, which is every velocity a
\* step has stored: the restriction to maxSpeed then leaves the sum alone.
C2_IsolatedKeepsVelocity ==
  cur.op.k \in Evaluations =>
    \A i \in cur.done :
      (Isolated(ParticleOf(i), pos0)
         /\ Dot(vel0[ParticleOf(i)], vel0[ParticleOf(i)]) <= maxSpeed * maxSpeed)
        => heap[cur.op.v2][WrittenSlot(i)] = vel0[ParticleOf(i)]

\* The sort positions of the candidate cells of a particle at p whose range
\* was written and has end > start.
WrittenRanges(p) ==
  UNION { IF /\ c \in DOMAIN dev_gridCellStartIndices
             /\ c \in DOMAIN dev_gridCellEndIndices
             /\ dev_gridCellEndIndices[c] > dev_gridCellStartIndices[c]
          THEN dev_gridCellStartIndices[c] .. dev_gridCellEndIndices[c] - 1
          ELSE {}
          : c \in {gridIndex3Dto1D(b[1], b[2], b[3], gridSideCount) :
                     b \in {BlockCell(p, t) : t \in 0 .. 7} \cap
                           ((0 .. gridSideCount - 1) \X (0 .. gridSideCount - 1)
                              \X (0 .. gridSideCount - 1))} }

\* C3: a grid evaluation examines every sort position of every candidate cell
\* whose range was written this step with end > start, the cell whose range
\* begins at sort position 0 included, and no other.
C3_EveryWrittenRangeScanned ==
  cur.op.k \in GridEvaluations =>
    \A i \in cur.done :
      Range(ScanPositions(dev_pos[WrittenSlot(i)])) = WrittenRanges(dev_pos[WrittenSlot(i)])

\* C4: in a CoherentGrid step, from the third sort to the integration, the
\* position at sort position i, the velocity at i and the cell id at i are
\* those of one particle, for every i.
C4_SortedBuffersAligned ==
  (cur.op.fn = "CoherentGrid"
     /\ cur.op.k \in {"kernIdentifyCellStartEnd", "kernUpdateVelNeighborSearchCoherent"})
    => \E perm \in [Slots -> Slots] :
         \A i \in Slots :
           /\ dev_pos[i] = pos0[perm[i]]
           /\ heap[cur.op.v1][i] = vel0[perm[i]]
           /\ dev_particleGridIndices[i] = CellIndex(pos0[perm[i]])
           /\ \A j \in Slots : j # i => perm[j] # perm[i]

\* Some rule distance is above the distance of p and q.
WithinSomeRule(p, q) ==
  \/ LengthLess(VSub(p, q), rule1Distance)
  \/ LengthLess(VSub(p, q), rule2Distance)
  \/ LengthLess(VSub(p, q), rule3Distance)

\* C5: for every particle p inside the domain and every other particle q less
\* than some rule distance from it, the cell of q is one of the cells the grid
\* evaluators select for p.
C5_NeighborsInBlock ==
  \A p, q \in Slots :
    (p # q /\ InDomain(dev_pos[p]) /\ WithinSomeRule(dev_pos[p], dev_pos[q]))
      => CellIndex(dev_pos[q]) \in Range(NeighborCellVec(dev_pos[p]))

\* A grid evaluation has run for two particles less than a rule distance
\* apart whose cells differ on every axis.
C5_Witness ==
  /\ cur.op.k \in GridEvaluations
  /\ CurFinished
  /\ \E p, q \in Slots :
       /\ WithinSomeRule(pos0[p], pos0[q])
       /\ \A a \in 1 .. 3 : Cell3D(pos0[p])[a] # Cell3D(pos0[q])[a]

\* The cells some particle of the step lies in, and the particles of cell c.
PopulatedCells == {CellIndex(pos0[s]) : s \in Slots}
ParticlesOfCell(c) == {s \in Slots : CellIndex(pos0[s]) = c}

RECURSIVE RangeTotal(_)
RangeTotal(S) ==
  IF S = {} THEN 0
  ELSE LET c == CHOOSE x \in S : TRUE
       IN  CellRead(dev_gridCellEndIndices, c) - CellRead(dev_gridCellStartIndices, c)
             + RangeTotal(S \ {c})

\* kernIdentifyCellStartEnd has run in all its threads and no later kernel
\* has begun.
RangeBuildDone == cur.op.k = "kernIdentifyCellStartEnd" /\ CurFinished

\* C6: after range-build, for every populated cell c, end[c] - start[c] is the
\* number of particles whose computed cell id is c and [start[c], end[c]) are
\* exactly the sort positions holding c; the lengths sum to N; no other cell
\* was written since the reset (it reads as the sentinel -1).
C6_RangesPartitionSortPositions ==
  RangeBuildDone =>
    /\ \A c \in PopulatedCells :
         LET start == CellRead(dev_gridCellStartIndices, c)
             end == CellRead(dev_gridCellEndIndices, c)
         IN  /\ end - start = Cardinality(ParticlesOfCell(c))
             /\ {i \in Slots : dev_particleGridIndices[i] = c} = start .. end - 1
    /\ RangeTotal(PopulatedCells) = numObjects
    /\ \A c \in (DOMAIN dev_gridCellStartIndices \cup DOMAIN dev_gridCellEndIndices)
                 \cup {CellIndex(p) + o : p \in PosSamples, o \in {-1, 1}} :
         c \notin PopulatedCells =>
           /\ CellRead(dev_gridCellStartIndices, c) = -1
           /\ CellRead(dev_gridCellEndIndices, c) = -1

\* Range-build is done for three particles in two cells, one cell holding two.
C6_Witness ==
  /\ RangeBuildDone
  /\ numObjects = 3
  /\ Cardinality(PopulatedCells) = 2
  /\ \E c \in PopulatedCells :
       /\ CellRead(dev_gridCellStartIndices, c) = 1
       /\ CellRead(dev_gridCellEndIndices, c) = 3

\* C7: in the running kernel no location written by one thread is read or
\* written by another thread; an evaluation writes only the buffer it was
\* given as vel2, which is not the buffer it reads as vel1, and reads nothing
\* of it; when the evaluation has run in all its threads every slot of vel2
\* has been written by exactly one of them.
C7_NoConflictWithinStage ==
  /\ \A w \in cur.wr : \A x \in cur.rd \cup cur.wr : w[1] # x[1] => w[2] # x[2]
  /\ cur.op.k \in Evaluations =>
       /\ cur.op.v1 # cur.op.v2
       /\ \A w \in cur.wr : w[2][1] = cur.op.v2
       /\ \A r \in cur.rd : r[2][1] # cur.op.v2
       /\ CurFinished =>
            \A s \in Slots :
              Cardinality({w \in cur.wr : w[2] = <<cur.op.v2, s>>}) = 1

\* A grid evaluation of three particles has run in all its threads, one of
\* them having read the current velocity of another thread's particle.
C7_Witness ==
  /\ audit
  /\ cur.op.k = "kernUpdateVelNeighborSearchScattered"
  /\ CurFinished
  /\ numObjects = 3
  /\ \E r \in cur.rd :
       /\ r[2][1] = cur.op.v1
       /\ r[2][2] # dev_particleArrayIndices[r[1]]

\* The step calls made so far in a run of MaxSteps calls.
StepsCalled == MaxSteps - budget

\* C8: (1) the return of every step function exchanges dev_vel1 and dev_vel2
\* and changes nothing the two allocations hold; (2) an evaluation that
\* begins after an earlier one reads the allocation the earlier one wrote and
\* writes the other; (3) when k step calls have returned and the device has
\* run all of them, dev_vel1 is the allocation the evaluation of call k wrote,
\* it holds exactly what that evaluation stored, and the pointers have been
\* exchanged k times; (4) copyBoidsToVBO exports what dev_vel1 then holds.
C8_VelocityBuffersSwapRoles ==
  /\ [][(pc # Idle /\ pc' = Idle)
         => (dev_vel1' = dev_vel2 /\ dev_vel2' = dev_vel1 /\ heap' = heap)]_vars
  /\ [][(CurFinished /\ cur' # cur /\ cur'.op.k \in Evaluations /\ evalBuf # "none")
         => (cur'.op.v1 = evalBuf /\ cur'.op.v2 # evalBuf)]_vars
  /\ []((pc = Idle /\ DeviceIdle /\ StepsCalled > 0)
         => /\ dev_vel1 = evalBuf
            /\ dev_vel2 # evalBuf
            /\ heap[dev_vel1] = evalVel
            /\ dev_vel1 = (IF StepsCalled % 2 = 0 THEN "vel_a" ELSE "vel_b"))
  /\ [][(vbodptr_velocities' # vbodptr_velocities)
         => \A i \in Slots :
              vbodptr_velocities'[i]
                = <<evalVel[i][1] + 30, evalVel[i][2] + 30, evalVel[i][3] + 30, 100>>]_vars

\* Two step calls have returned and run, the two allocations differ, and the
\* export made after them shows the velocities of the second.
C8_Witness ==
  /\ pc = Idle
  /\ DeviceIdle
  /\ StepsCalled = 2
  /\ dev_vel1 = "vel_a"
  /\ heap["vel_a"] # heap["vel_b"]
  /\ vbodptr_velocities = [i \in Slots |-> kernCopyVelocitiesToVBO(i, evalVel)]

\* The stages of a grid step in the order of the claim.
StageOrder ==
  <<"reset", "index", "sort", "range", "evaluation", "integration", "swap">>
StageRank(st) == CHOOSE r \in 1 .. 7 : StageOrder[r] = st

\* The device is running, or ran last, a kernel of a grid step.
InGridStep == cur.op.fn \in {"ScatteredGrid", "CoherentGrid"}

\* The stages begun in seq are in the order of StageOrder from "reset" on,
\* none left out, each begun when all before it had completed.
InOrderWithBarriers(seq) ==
  \A j \in 1 .. Len(seq) :
    /\ seq[j].settled
    /\ IF j = 1 THEN seq[j].stage = "reset"
       ELSE StageRank(seq[j].stage) - StageRank(seq[j - 1].stage) \in {0, 1}

NotSwap(s) == s.stage # "swap"

\* The launches of the running step the device has still to begin.
Pending == {stream[j] : j \in 1 .. Len(stream)}

PosThreadRuns(i) ==
  /\ cur' # cur
  /\ cur'.op.k = "kernUpdatePos"
  /\ i \in cur'.done
  /\ CurFinished \/ i \notin cur.done

\* Coordinate x of a position moved by velocity v for time d and reset.
Integrated(x, v, d) ==
  LET moved == x + RoundDiv(v * d, Q)
  IN  IF moved < -scene_scale THEN scene_scale
      ELSE IF moved > scene_scale THEN -scene_scale
      ELSE moved

\* C10: a thread of the integration begins only when the evaluation of the same
\* step has run in all its threads, reads the buffer that evaluation wrote,
\* and sets each coordinate of its own position to position + velocityNext *
\* dt, replaced by +scene_scale when below -scene_scale and by -scene_scale
\* when above +scene_scale, whatever the size of the displacement; it changes
\* no other position.
C10_IntegrationHardReset ==
  [][\A i \in Slots :
       PosThreadRuns(i) =>
         /\ CurFinished => (cur.op.k \in Evaluations /\ cur.done = Slots)
         /\ cur'.op.v2 = evalBuf
         /\ heap[cur'.op.v2] = evalVel
         /\ \A a \in 1 .. 3 :
              dev_pos'[i][a] = Integrated(dev_pos[i][a], evalVel[i][a], cur'.op.dt)
         /\ \A j \in Slots \ {i} : dev_pos'[j] = dev_pos[j]]_vars

\* The integration of a Naive step has run and moved some coordinate by more
\* than 2 * scene_scale to above 3 * scene_scale, leaving it at -scene_scale.
C10_Witness ==
  /\ cur.op.k = "kernUpdatePos"
  /\ cur.op.fn = "Naive"
  /\ CurFinished
  /\ \E i \in Slots, a \in 1 .. 3 :
       /\ RoundDiv(evalVel[i][a] * cur.op.dt, Q) > 2 * scene_scale
       /\ pos0[i][a] + RoundDiv(evalVel[i][a] * cur.op.dt, Q) > 3 * scene_scale
       /\ dev_pos[i][a] = -scene_scale

\* rule1 + rule2 + rule3 + velocityCurrent of thread i of the running
\* evaluation: the sum it restricts to maxSpeed and stores.
SumOfThread(i) ==
  CASE cur.op.k = "kernUpdateVelocityBruteForce" ->
         VelocitySum(numObjects, i, dev_pos, heap[cur.op.v1])
    [] cur.op.k = "kernUpdateVelNeighborSearchScattered" ->
         GridVelocitySum(ScatteredSelf(i), ScatteredNeighbors(i), dev_pos, heap[cur.op.v1])
    [] OTHER ->
         GridVelocitySum(i, CoherentNeighbors(i), dev_pos, heap[cur.op.v1])

\* l is the length of sum to the nearest unit of the model.
IsLength(l, sum) ==
  /\ l >= 0
  /\ (2 * l - 1) * (2 * l - 1) <= 4 * Dot(sum, sum)
  /\ 4 * Dot(sum, sum) <= (2 * l + 1) * (2 * l + 1)

\* v is sum * (maxSpeed / l) on every axis, to the nearest unit of the model.
Rescaled(v, sum, l) ==
  \A a \in 1 .. 3 : 2 * Abs(v[a] * l - sum[a] * maxSpeed) <= l

\* C11: the velocity an evaluation thread stores is the sum rule1 + rule2 +
\* rule3 + velocityCurrent itself when the length of the sum is at most
\* maxSpeed, and otherwise the sum times maxSpeed / length on every axis (the
\* same direction), of length maxSpeed to within one unit of the model.
C11_StoredSpeedAtMostMaxSpeed ==
  cur.op.k \in Evaluations =>
    \A i \in cur.done :
      LET sum == SumOfThread(i)
          v == heap[cur.op.v2][WrittenSlot(i)]
      IN  IF Dot(sum, sum) <= maxSpeed * maxSpeed
          THEN v = sum
          ELSE /\ \E l \in maxSpeed .. 10 * maxSpeed : IsLength(l, sum) /\ Rescaled(v, sum, l)
               /\ Dot(v, v) <= (maxSpeed + 1) * (maxSpeed + 1)
               /\ Dot(v, v) >= (maxSpeed - 1) * (maxSpeed - 1)
               /\ \A a \in 1 .. 3 : v[a] * sum[a] >= 0

\* An evaluation has stored one sum unchanged and one rescaled.
C11_Witness ==
  /\ cur.op.k \in Evaluations
  /\ \E i, j \in cur.done :
       /\ Dot(SumOfThread(i), SumOfThread(i)) > maxSpeed * maxSpeed
       /\ heap[cur.op.v2][WrittenSlot(i)] # SumOfThread(i)
       /\ Dot(SumOfThread(j), SumOfThread(j)) <= maxSpeed * maxSpeed
       /\ SumOfThread(j) # Zero3

\* The particle whose position and velocity the running grid evaluation
\* reads for sort position j.
SlotAtSort(j) ==
  IF cur.op.k = "kernUpdateVelNeighborSearchScattered"
  THEN dev_particleArrayIndices[j] ELSE j

\* C12: no store of range-build falls outside the indices 0 .. cellCount - 1
\* of the start and end buffers (an index outside them in the domain of a
\* range buffer of the model is a store outside the allocation), and no scan
\* of a grid evaluation visits a particle whose cell is outside the grid.
C12_OutOfGridHarmless ==
  /\ DOMAIN dev_gridCellStartIndices \subseteq 0 .. gridCellCount - 1
  /\ DOMAIN dev_gridCellEndIndices \subseteq 0 .. gridCellCount - 1
  /\ cur.op.k \in GridEvaluations =>
       \A i \in cur.done :
         \A j \in Range(ScanPositions(dev_pos[WrittenSlot(i)])) :
           InGrid(Cell3D(dev_pos[SlotAtSort(j)]))

\* C13: the call in which a launch or an allocation fails ends in the exit of
\* the process; once a call has failed the host launches nothing more and
\* does not exchange dev_vel1 and dev_vel2.
C13_FailureAbortsAtOnce ==
  [][/\ (~lastError /\ lastError') => pc' = Exited
     /\ lastError => /\ Len(stream') <= Len(stream)
                     /\ dev_vel1' = dev_vel1
                     /\ dev_vel2' = dev_vel2]_vars

\* C14: until endSimulation every allocation of initSimulation stands and
\* nothing has been given to cudaFree, whatever steps have run; endSimulation
\* gives nine pointers to cudaFree, every allocation among them (hence each
\* once), and leaves none standing.
C14_EveryBufferFreedOnce ==
  /\ pc \notin {Ended, Exited} => (live = Allocations /\ freed = <<>>)
  /\ pc = Ended =>
       /\ live = {}
       /\ Len(freed) = Cardinality(Allocations)
       /\ Range(freed) = Allocations

\* endSimulation has run after a CoherentGrid step that left the velocity
\* pointers exchanged.
C14_Witness ==
  /\ pc = Ended
  /\ dev_vel1 = "vel_b"
  /\ freed[1] = "vel_b"
  /\ cur.op.fn = "CoherentGrid"

\* C15: at every moment of every run, the first of a process or a later one,
\* cellWidth is twice the largest rule distance, sideCount is 2 * ((int)
\* (scene_scale / cellWidth) + 1), cellCount is sideCount cubed and gridMinimum
\* is -(sideCount / 2) * cellWidth on every axis.
C15_GeometryFixed ==
  LET width == 2 * Max(rule1Distance, Max(rule2Distance, rule3Distance))
      half == (scene_scale \div width) + 1
  IN  /\ gridCellWidth = width
      /\ gridSideCount = 2 * half
      /\ gridCellCount = (2 * half) * (2 * half) * (2 * half)
      /\ gridMinimum = <<-half * width, -half * width, -half * width>>

\* The host is in a step and has not yet called thrust::sort_by_key in it.
BeforeSort ==
  InStep /\ \A j \in 1 .. pc.i - 1 : Body(pc.fn)[j].t # "sort"

\* C16: every particle inside the domain has, per axis, the cell coordinate
\* floor((position - gridMinimum) / cellWidth) in 0 .. sideCount - 1 and the
\* linear id x + y * side + z * side * side in 0 .. cellCount - 1, two
\* particles with the same id have the same coordinates, the indexer has
\* stored that id for every slot it has handled (until the sort reorders the
\* cell-id buffer), and the evaluators' cell of the position is the same one.
C16_CellOfDomainPosition ==
  \A s \in Slots :
    InDomain(dev_pos[s]) =>
      LET p == dev_pos[s]
          c == [a \in 1 .. 3 |-> (p[a] - gridMinimum[a]) \div gridCellWidth]
          id == c[1] + c[2] * gridSideCount + c[3] * gridSideCount * gridSideCount
      IN  /\ \A a \in 1 .. 3 : c[a] >= 0 /\ c[a] < gridSideCount
          /\ id >= 0 /\ id < gridCellCount
          /\ \A t \in Slots : CellIndex(dev_pos[t]) = id => Cell3D(dev_pos[t]) = Cell3D(p)
          /\ (cur.op.k = "kernComputeIndices" /\ s \in cur.done /\ BeforeSort) =>
                dev_particleGridIndices[s] = id
          /\ Cell3D(p) = <<c[1], c[2], c[3]>>

\* The other particles less than d from particle i.
Near(i, d) ==
  {t \in Slots \ {i} :
     Dot(VSub(dev_pos[t], dev_pos[i]), VSub(dev_pos[t], dev_pos[i])) < d * d}

\* (average position of the particles of S - position of i) * rule1Scale
Cohesion(i, S) ==
  VDiv(VSub(VDiv(SumSeq(SetToSeq(S), dev_pos), Cardinality(S)), dev_pos[i]),
       rule1ScaleDiv)

\* rule2Scale * the sum over S of (position of i - position of the neighbour)
Separation(i, S) ==
  VDiv(SumSeq(SetToSeq(S), [t \in Slots |-> VSub(dev_pos[i], dev_pos[t])]),
       rule2ScaleDiv)

\* rule3Scale * the sum over S of the current velocities
Alignment(S, vel) == VDiv(SumSeq(SetToSeq(S), vel), rule3ScaleDiv)

\* C17: for every particle i with another particle within rule1Distance that
\* the brute-force evaluation has handled, rule 1 is (average position of the
\* others within rule1Distance - own position) * rule1Scale, rule 2 is
\* rule2Scale * the sum of (own - neighbour) over the others within
\* rule2Distance, rule 3 is rule3Scale * the sum (not the average) of the
\* velocities of the others within rule3Distance, i itself in none of the
\* three sets, and the stored velocity is their sum with the current velocity
\* restricted to maxSpeed.
C17_BruteForceRules ==
  cur.op.k = "kernUpdateVelocityBruteForce" =>
    \A i \in cur.done :
      LET vel == heap[cur.op.v1]
          r1 == Cohesion(i, Near(i, rule1Distance))
          r2 == Separation(i, Near(i, rule2Distance))
          r3 == Alignment(Near(i, rule3Distance), vel)
      IN  Near(i, rule1Distance) # {} =>
            /\ kernUpdateVelocityRule1(numObjects, i, dev_pos) = r1
            /\ kernUpdateVelocityRule2(numObjects, i, dev_pos) = r2
            /\ kernUpdateVelocityRule3(numObjects, i, dev_pos, vel) = r3
            /\ heap[cur.op.v2][i] =
                 RestrictToMaxSpeed(VAdd(VAdd(VAdd(r1, r2), r3), vel[i]))

\* The brute-force evaluation has handled a particle with two others within
\* rule3Distance whose velocity sum differs from their average, one of them
\* within rule2Distance, and all three rules are not zero.
C17_Witness ==
  /\ cur.op.k = "kernUpdateVelocityBruteForce"
  /\ \E i \in cur.done :
       LET vel == heap[cur.op.v1]
           n3 == Near(i, rule3Distance)
       IN  /\ Cardinality(n3) = 2
           /\ Near(i, rule2Distance) # {}
           /\ Near(i, rule2Distance) # n3
           /\ Cohesion(i, Near(i, rule1Distance)) # Zero3
           /\ Separation(i, Near(i, rule2Distance)) # Zero3
           /\ Alignment(n3, vel) # Zero3
           /\ Alignment(n3, vel) # VDiv(VDiv(SumSeq(SetToSeq(n3), vel), 2), rule3ScaleDiv)

\* The cells of the 2x2x2 block of a particle at p with every coordinate in
\* 0 .. sideCount - 1.
BlockCellsInside(p) ==
  {u \in 0 .. 7 :
     \A a \in 1 .. 3 : BlockCell(p, u)[a] >= 0 /\ BlockCell(p, u)[a] < gridSideCount}

\* C18: for every particle a grid evaluation has handled, every entry of
\* neighbor_cell_vec used for a lookup of the start and end buffers (the
\* entries that are not -1) is the id, inside 0 .. cellCount - 1, of a cell of
\* the particle's 2x2x2 block with all three coordinates in
\* 0 .. sideCount - 1; the block cells outside the grid give no entry, so
\* there are as many lookups as block cells inside the grid, at most 8.
C18_LookupsInsideGrid ==
  cur.op.k \in GridEvaluations =>
    \A i \in cur.done :
      LET p == dev_pos[WrittenSlot(i)]
          v == NeighborCellVec(p)
          used == {t \in 1 .. 8 : v[t] >= 0}
      IN  /\ \A t \in used :
                /\ v[t] < gridCellCount
                /\ \E u \in BlockCellsInside(p) :
                     v[t] = BlockCell(p, u)[1] + BlockCell(p, u)[2] * gridSideCount
                              + BlockCell(p, u)[3] * gridSideCount * gridSideCount
          /\ \A t \in (1 .. 8) \ used : v[t] = -1
          /\ Cardinality(used) = Cardinality(BlockCellsInside(p))
          /\ Cardinality({v[t] : t \in used}) = Cardinality(used)
          /\ Cardinality(used) <= 8

\* A grid evaluation has handled a particle whose own cell is inside the grid
\* and whose block has cells outside it: fewer than 8 lookups.
C18_Witness ==
  /\ cur.op.k \in GridEvaluations
  /\ DOMAIN dev_gridCellStartIndices \subseteq 0 .. gridCellCount - 1
  /\ \E i \in cur.done :
       LET p == dev_pos[WrittenSlot(i)]
       IN  /\ CellIndex(p) \in DOMAIN dev_gridCellStartIndices
           /\ Cardinality(BlockCellsInside(p)) < 8
           /\ Cardinality(BlockCellsInside(p)) > 0

\* The host is in a ScatteredGrid step, past its thrust::sort_by_key, and
\* kernUpdatePos has not begun to move the particles.
AfterScatteredSort ==
  /\ pc.fn = "ScatteredGrid"
  /\ pc.i > 4
  /\ cur.op.k # "kernUpdatePos"

\* C19: after the sort of a ScatteredGrid step, the first of a run or a later
\* one, dev_particleArrayIndices holds every slot 0 .. N - 1 exactly once,
\* dev_particleGridIndices is in ascending order, and the cell id at every
\* sort position i is the cell of the particle in slot
\* dev_particleArrayIndices[i]; this for every order the sort may give to
\* equal keys.
C19_SortKeepsPairsAligned ==
  AfterScatteredSort =>
    /\ {dev_particleArrayIndices[i] : i \in Slots} = 0 .. numObjects - 1
    /\ \A i, j \in Slots : i < j => dev_particleGridIndices[i] <= dev_particleGridIndices[j]
    /\ \A i \in Slots :
         LET p == dev_pos[dev_particleArrayIndices[i]]
             c == [a \in 1 .. 3 |-> (p[a] - gridMinimum[a]) \div gridCellWidth]
         IN  dev_particleGridIndices[i] =
               c[1] + c[2] * gridSideCount + c[3] * gridSideCount * gridSideCount

\* After the sort of a ScatteredGrid step that follows a second
\* initSimulation, two particles of one cell stand in the order opposite to
\* their slots.
C19_Witness ==
  /\ AfterScatteredSort
  /\ gridMinimum # GridMinimumAfterInit(Zero3, CellWidthOfRules)
  /\ \E i \in Slots :
       /\ i + 1 \in Slots
       /\ dev_particleGridIndices[i] = dev_particleGridIndices[i + 1]
       /\ dev_particleArrayIndices[i] > dev_particleArrayIndices[i + 1]
  /\ \E i \in Slots : dev_particleArrayIndices[i] # i

\* Every coordinate of every position lies in [-scene_scale, scene_scale].
PositionsInDomain == \A s \in Slots : InDomain(dev_pos[s])

\* C20: at every moment every coordinate of every position lies in
\* [-scene_scale, scene_scale]; whenever the host is between two calls (after
\* initSimulation or a step, before the next step) every particle's cell
\* coordinates lie in 0 .. sideCount - 1; and every store of range-build is
\* at an index 0 .. cellCount - 1 of the start and end buffers.
C20_ParticlesInsideGrid ==
  /\ PositionsInDomain
  /\ pc = Idle =>
       \A s \in Slots : \A a \in 1 .. 3 :
         /\ Cell3D(dev_pos[s])[a] >= 0
         /\ Cell3D(dev_pos[s])[a] < gridSideCount
  /\ DOMAIN dev_gridCellStartIndices \subseteq 0 .. gridCellCount - 1
  /\ DOMAIN dev_gridCellEndIndices \subseteq 0 .. gridCellCount - 1

\* C21: no kernel thread of a step, no sort of a step and no export has read
\* a slot of a velocity buffer that nothing had written since the buffer was
\* allocated.
C21_VelocityReadsWritten == velShadow.stale = {}

====
